---- MODULE Spec2Model ----
(***************************************************************************)
(* A model of the Zendesk Assistant web application (app.py, llm.py).      *)
(*                                                                         *)
(* The server runs under Flask's threaded development server               *)
(* (app.run, app.py:530), so request handlers interleave.  api_chat blocks *)
(* on file and network I/O between its accesses to the shared registry and *)
(* the log directory; it is modelled one shared access per step.  The      *)
(* other handlers are modelled as one step each.                           *)
(*                                                                         *)
(* Flask's `session` is a signed cookie kept by the client: a handler      *)
(* works on the copy the request carried and the response replaces the     *)
(* client's cookie only when the handler modified the copy.                *)
(*                                                                         *)
(* uuid4().hex[:12] is modelled as returning an identifier it has never    *)
(* returned before.                                                        *)
(***************************************************************************)
EXTENDS Integers, Sequences, FiniteSets, TLC

\* ------------------------------------------------------------------ bounds
MaxSid == 2          \* how many identifiers uuid4 can hand out
MaxChats == 2        \* how many chat requests with a message are started

\* ------------------------------------------------------------- value sets
Callers == {"c1", "c2"}             \* clients, each holding one cookie
Chatters == {"c1"}                  \* the clients that chat
Reqs == {1, 2}                      \* chat requests that can be in flight
SIDS == 1..MaxSid
NoSid == 0                          \* "sid" not in session
SP == " "
CR == "CR"                          \* carriage return
LF == "LF"                          \* line feed
Whitespace == {SP, CR, LF}          \* what str.strip() removes
None == <<"None">>                  \* Python's None where a text is expected

\* ----------------------------------------------------------------- app.py
ADMIN_PASSWORD == <<"a", "d", "m">>
DEFAULT_PROMPT == <<"Z">>

\* request.json.get(key, default)
Get(body, key, default) == IF key \in DOMAIN body THEN body[key] ELSE default

\* str.strip(): leading and trailing whitespace removed
RECURSIVE LStrip(_)
LStrip(s) ==
  IF s # <<>> /\ Head(s) \in Whitespace THEN LStrip(Tail(s)) ELSE s
RECURSIVE RStrip(_)
RStrip(s) ==
  IF s # <<>> /\ s[Len(s)] \in Whitespace
  THEN RStrip(SubSeq(s, 1, Len(s) - 1)) ELSE s
\* a handler that forgets to trim the message
NoStrip(s) == s
Strip(s) == RStrip(LStrip(s))

\* The JSON bodies a client posts to /api/chat
ChatBodies ==
  { [k \in {} |-> <<>>] } \cup
  { [message |-> m] : m \in { <<>>, <<SP>>, <<"a">>, <<SP, "a", SP>> } }

\* The JSON bodies a client posts to /api/admin/login
LoginBodies ==
  { [k \in {} |-> <<>>] } \cup
  { [password |-> p] : p \in { ADMIN_PASSWORD, <<"x">> } }

\* ----------------------------------------------------------------- llm.py
LLMOutcomes == {"ok", "transport", "http", "parse"}
\* llm.py:51-63: what call_llm returns for each outcome of requests.post,
\* raise_for_status and resp.json(): the reply text, or in the one except
\* clause "Error connecting to AI service. (...)", whose detail is left out
ErrorReply == <<"E">>
LLMReturn(outcome) == IF outcome = "ok" THEN <<"r">> ELSE ErrorReply

\* ------------------------------------------------------------------ state
VARIABLES
  chat_sessions,   \* registry: session id -> sequence of messages
  sessions_dir,    \* SESSIONS_DIR: session id -> rows of {sid}.csv
  mtime_order,     \* ids of the logs, least recently modified first
  training_docs,   \* TRAINING_DOCS_DIR: file name -> text written to it
  SYSTEM_PROMPT,   \* the global system prompt
  cookie,          \* caller -> the session cookie the client holds
  issued,          \* identifiers uuid4 has returned
  started,         \* number of chat requests with a message started so far
  req,             \* chat request -> its position and local variables
  answered,        \* the chat request that answered last, as it ended
  authed,          \* history: caller's last login/logout was a correct login
  written_by,      \* history: file name -> the handler that wrote it last
  at_restart       \* history: the session logs as the last restart found them

vars == <<chat_sessions, sessions_dir, mtime_order, training_docs,
          SYSTEM_PROMPT, cookie, issued, started, req, answered, authed,
          written_by, at_restart>>

HEADER == [kind |-> "header"]
Row(sid, role, content) ==
  [kind |-> "record", session_id |-> sid, role |-> role, message |-> content]
Msg(role, content) == [role |-> role, content |-> content]

\* a chat request: pc is the line it is at; raised is the line that raised.
\* History fields: regApp and logApp are the roles of the records it has
\* appended to the registry and to the log; fresh says that no admin has deleted its
\* session's log since it began; posts counts its calls of requests.post
IdleReq ==
  [pc |-> "idle", caller |-> "c1", sess |-> [sid |-> NoSid, is_admin |-> FALSE],
   modified |-> FALSE, sid |-> NoSid, msg |-> <<>>, is_new |-> FALSE,
   reply |-> <<>>, raised |-> "no", status |-> 0,
   regApp |-> <<>>, logApp |-> <<>>, fresh |-> FALSE, posts |-> 0]

Without(f, k) == [x \in DOMAIN f \ {k} |-> f[x]]
With(f, k, v) == [x \in DOMAIN f \cup {k} |-> IF x = k THEN v ELSE f[x]]
Remove(seq, x) == SelectSeq(seq, LAMBDA y : y # x)

Init ==
  /\ chat_sessions = [s \in {} |-> <<>>]
  /\ sessions_dir = [s \in {} |-> <<>>]
  /\ mtime_order = <<>>
  /\ training_docs = [n \in {} |-> <<>>]
  /\ SYSTEM_PROMPT = DEFAULT_PROMPT
  /\ cookie = [c \in Callers |-> [sid |-> NoSid, is_admin |-> FALSE]]
  /\ issued = {}
  /\ started = 0
  /\ req = [r \in Reqs |-> IdleReq]
  /\ answered = IdleReq
  /\ authed = [c \in Callers |-> FALSE]
  /\ written_by = [n \in {} |-> ""]
  /\ at_restart = [s \in {} |-> <<>>]


\* --------------------------------------------------------------- helpers
\* werkzeug's secure_filename on the text of a session id: -s stands for the
\* text of s with a leading dot, which secure_filename strips
secure_sid(x) == IF x < 0 THEN 0 - x ELSE x
SidInputs == SIDS \cup { 0 - s : s \in SIDS }

\* the exception a handler raises becomes a 500 response (Flask)
Raise(q) == [q EXCEPT !.raised = q.pc, !.pc = "L88"]

\* the record of a request that has answered: what it did and answered
Finished(q) ==
  [IdleReq EXCEPT !.pc = "done", !.status = IF q.raised # "no" THEN 500 ELSE 200,
                  !.reply = q.reply, !.raised = q.raised,
                  !.regApp = q.regApp, !.logApp = q.logApp,
                  !.posts = q.posts]

\* chat_sessions[sid].append({"role": role, "content": content})
RegistryAppend(reg, sid, role, content) ==
  [reg EXCEPT ![sid] = Append(@, Msg(role, content))]

\* log_csv lines 54-58: open(path, "a") creates the file when it is absent;
\* the header row is written when is_new, then the record
LogRows(is_new, sid, role, content) ==
  (IF is_new THEN <<HEADER>> ELSE <<>>) \o <<Row(sid, role, content)>>
LogAppend(dir, sid, is_new, role, content) ==
  With(dir, sid,
       (IF sid \in DOMAIN dir THEN dir[sid] ELSE <<>>)
         \o LogRows(is_new, sid, role, content))
Touch(order, sid) == Append(Remove(order, sid), sid)

\* ------------------------------------------------- api_chat, app.py:75-88
\* lines 77-80: the message is trimmed; an empty one is answered 400 at once;
\* otherwise get_session_id() reads or creates session["sid"]
chat_begin(r, c, body) ==
  /\ req[r].pc = "idle"
  /\ \A q \in Reqs : q < r => req[q].pc # "idle"
  /\ LET msg == Strip(Get(body, "message", <<>>))
         old == cookie[c]
     IN IF msg = <<>>
        THEN /\ answered' = [IdleReq EXCEPT !.pc = "done", !.status = 400]
             /\ UNCHANGED <<issued, started, req>>
        ELSE \E new \in (IF old.sid = NoSid THEN SIDS \ issued ELSE {old.sid}) :
               /\ started < MaxChats
               /\ started' = started + 1
               /\ issued' = issued \cup {new}
               /\ req' = [req EXCEPT ![r] =
                     [IdleReq EXCEPT !.pc = "L81", !.caller = c,
                                     !.sess = IF old.sid = NoSid
                                              THEN [old EXCEPT !.sid = new]
                                              ELSE IdleReq.sess,
                                     !.modified = (old.sid = NoSid),
                                     !.sid = new, !.msg = msg,
                                     !.fresh = TRUE]]
               /\ UNCHANGED answered
  /\ UNCHANGED <<chat_sessions, sessions_dir, mtime_order, training_docs,
                 SYSTEM_PROMPT, cookie, authed, written_by, at_restart>>

\* line 81: if sid not in chat_sessions
chat_check(r) ==
  /\ req[r].pc = "L81"
  /\ req' = [req EXCEPT ![r].pc =
        IF req[r].sid \in DOMAIN chat_sessions THEN "L83" ELSE "L82"]
  /\ UNCHANGED <<chat_sessions, sessions_dir, mtime_order, SYSTEM_PROMPT,
                 cookie, issued, started, authed, training_docs, answered,
                 written_by, at_restart>>

\* line 82: chat_sessions[sid] = []
chat_create(r) ==
  /\ req[r].pc = "L82"
  /\ chat_sessions' = With(chat_sessions, req[r].sid, <<>>)
  /\ req' = [req EXCEPT ![r].pc = "L83"]
  /\ UNCHANGED <<sessions_dir, mtime_order, SYSTEM_PROMPT, cookie, issued,
                 started, authed, training_docs, answered, written_by, at_restart>>

\* line 83: chat_sessions[sid].append(user message); KeyError when the entry
\* was removed since line 81
chat_append_user(r) ==
  /\ req[r].pc = "L83"
  /\ IF req[r].sid \in DOMAIN chat_sessions
     THEN /\ chat_sessions' =
               RegistryAppend(chat_sessions, req[r].sid, "user", req[r].msg)
          /\ req' = [req EXCEPT ![r].pc = "L84a",
                                ![r].regApp = Append(@, "user")]
     ELSE /\ req' = [req EXCEPT ![r] = Raise(@)]
          /\ UNCHANGED chat_sessions
  /\ UNCHANGED <<sessions_dir, mtime_order, SYSTEM_PROMPT, cookie, issued,
                 started, authed, training_docs, answered, written_by, at_restart>>

\* log_csv line 53: is_new = not path.exists()
log_csv_exists(r) ==
  /\ req[r].pc \in {"L84a", "L87a"}
  /\ req' = [req EXCEPT ![r].is_new = (req[r].sid \notin DOMAIN sessions_dir),
                        ![r].pc = IF req[r].pc = "L84a" THEN "L84b" ELSE "L87b"]
  /\ UNCHANGED <<chat_sessions, sessions_dir, mtime_order, SYSTEM_PROMPT,
                 cookie, issued, started, authed, training_docs, answered,
                 written_by, at_restart>>

\* log_csv lines 54-58, called from line 84 (user) and line 87 (assistant)
log_csv_write(r) ==
  /\ req[r].pc \in {"L84b", "L87b"}
  /\ LET role == IF req[r].pc = "L84b" THEN "user" ELSE "assistant"
         content == IF req[r].pc = "L84b" THEN req[r].msg ELSE req[r].reply
     IN /\ sessions_dir' =
             LogAppend(sessions_dir, req[r].sid, req[r].is_new, role, content)
        /\ mtime_order' = Touch(mtime_order, req[r].sid)
        /\ req' = [req EXCEPT ![r].pc = IF req[r].pc = "L84b" THEN "L85" ELSE "L88",
                              ![r].logApp = Append(@, role)]
  /\ UNCHANGED <<chat_sessions, SYSTEM_PROMPT, cookie, issued, started,
                 authed, training_docs, answered, written_by, at_restart>>

\* line 85: reply = call_llm(chat_sessions[sid], SYSTEM_PROMPT, load_knowledge())
\* KeyError when the entry is gone; llm.py:26 raises AttributeError outside
\* its try block when the prompt is not text; otherwise llm.py:52 posts the
\* request once and every failure of it ends in the except clause
chat_call_llm(r, outcome) ==
  /\ req[r].pc = "L85"
  /\ IF req[r].sid \notin DOMAIN chat_sessions \/ SYSTEM_PROMPT = None
     THEN req' = [req EXCEPT ![r] = Raise(@)]
     ELSE req' = [req EXCEPT ![r].pc = "L86", ![r].reply = LLMReturn(outcome),
                             ![r].posts = @ + 1]
  /\ UNCHANGED <<chat_sessions, sessions_dir, mtime_order, SYSTEM_PROMPT,
                 cookie, issued, started, authed, training_docs, answered,
                 written_by, at_restart>>

\* line 86: chat_sessions[sid].append(assistant message)
chat_append_reply(r) ==
  /\ req[r].pc = "L86"
  /\ IF req[r].sid \in DOMAIN chat_sessions
     THEN /\ chat_sessions' =
               RegistryAppend(chat_sessions, req[r].sid, "assistant", req[r].reply)
          /\ req' = [req EXCEPT ![r].pc = "L87a",
                                ![r].regApp = Append(@, "assistant")]
     ELSE /\ req' = [req EXCEPT ![r] = Raise(@)]
          /\ UNCHANGED chat_sessions
  /\ UNCHANGED <<sessions_dir, mtime_order, SYSTEM_PROMPT, cookie, issued,
                 started, authed, training_docs, answered, written_by, at_restart>>

\* line 88 (or the 500 of an exception): the response reaches the client,
\* with a Set-Cookie of the request's session copy when it was modified
chat_respond(r) ==
  /\ req[r].pc = "L88"
  /\ answered' = Finished(req[r])
  /\ req' = [req EXCEPT ![r] = IdleReq]
  /\ cookie' = IF req[r].modified
               THEN [cookie EXCEPT ![req[r].caller] = req[r].sess]
               ELSE cookie
  /\ UNCHANGED <<chat_sessions, sessions_dir, mtime_order, training_docs,
                 SYSTEM_PROMPT, issued, started, authed, written_by, at_restart>>

\* ------------------------------------------------ sessions, app.py:90-102
Response(status, out) == [status |-> status, out |-> out]

\* new_session, lines 92-97; the response carries the new identifier
\* a reset that forgets lines 93-94
NewRegistry_keepOld(reg, old, new) == With(reg, new, <<>>)
NewRegistry(reg, old, new) == With(Without(reg, old), new, <<>>)
new_session(c, new) ==
  /\ new \in SIDS \ issued
  /\ chat_sessions' = NewRegistry(chat_sessions, cookie[c].sid, new)
  /\ cookie' = [cookie EXCEPT ![c].sid = new]
  /\ issued' = issued \cup {new}
  /\ UNCHANGED <<sessions_dir, mtime_order, SYSTEM_PROMPT, started, req,
                 authed, training_docs, answered, written_by, at_restart>>
new_session_response(c, new) == Response(200, new)

\* session_info, lines 100-102; get_session_id() creates session["sid"]
\* a read by chat_sessions.setdefault(sid, []), which keeps the entry it reads
InfoRegistry_setdefault(reg, sid) ==
  IF sid \in DOMAIN reg THEN reg ELSE With(reg, sid, <<>>)
InfoRegistry(reg, sid) == reg
session_info(c, sid) ==
  /\ sid \in (IF cookie[c].sid = NoSid THEN SIDS \ issued ELSE {cookie[c].sid})
  /\ cookie' = [cookie EXCEPT ![c].sid = sid]
  /\ issued' = issued \cup {sid}
  /\ chat_sessions' = InfoRegistry(chat_sessions, sid)
  /\ UNCHANGED <<sessions_dir, mtime_order, SYSTEM_PROMPT,
                 started, req, authed, training_docs, answered,
                 written_by, at_restart>>
session_info_response(c, sid) ==
  Response(200, [session_id |-> sid,
                 history |-> IF sid \in DOMAIN chat_sessions
                             THEN chat_sessions[sid] ELSE <<>>])

\* ---------------------------------------------- admin auth, app.py:106-120
PasswordOk(body) == Get(body, "password", None) = ADMIN_PASSWORD

admin_login(c, body) ==
  /\ cookie' = IF PasswordOk(body) THEN [cookie EXCEPT ![c].is_admin = TRUE]
               ELSE cookie
  /\ authed' = IF PasswordOk(body) THEN [authed EXCEPT ![c] = TRUE] ELSE authed
  /\ UNCHANGED <<chat_sessions, sessions_dir, mtime_order, SYSTEM_PROMPT,
                 issued, started, req, training_docs, answered,
                 written_by, at_restart>>
admin_login_response(c, body) ==
  IF PasswordOk(body) THEN Response(200, TRUE) ELSE Response(401, FALSE)

admin_logout(c) ==
  /\ cookie' = [cookie EXCEPT ![c].is_admin = FALSE]
  /\ authed' = [authed EXCEPT ![c] = FALSE]
  /\ UNCHANGED <<chat_sessions, sessions_dir, mtime_order, SYSTEM_PROMPT,
                 issued, started, req, training_docs, answered,
                 written_by, at_restart>>

admin_status(c) == UNCHANGED vars
admin_status_response(c) == Response(200, cookie[c].is_admin)

\* require_admin, lines 60-67
require_admin(c) == cookie[c].is_admin
Unauthorized == Response(403, "Unauthorized")

\* -------------------------------------------- session logs, app.py:171-203
\* sorted(SESSIONS_DIR.glob("*.csv"), reverse=True): by file name, descending
RECURSIVE SortedDesc(_)
SortedDesc(S) ==
  IF S = {} THEN <<>>
  ELSE LET m == CHOOSE x \in S : \A y \in S : y <= x
       IN <<m>> \o SortedDesc(S \ {m})

\* st_mtime, as the rank of the log among the logs by last modification
MTime(sid) == CHOOSE i \in 1..Len(mtime_order) : mtime_order[i] = sid

\* csv.writer (lines 55-58, file opened with newline="") ends each row with
\* one line terminator and writes the line breaks of a quoted field as they
\* are; open(f, "r") (line 177) reads in text mode with universal newlines,
\* where "\r\n", "\r" and "\n" each end a line
RECURSIVE LineBreaks(_)
LineBreaks(text) ==
  IF text = <<>> THEN 0
  ELSE IF Head(text) = CR /\ Len(text) >= 2 /\ text[2] = LF
  THEN 1 + LineBreaks(SubSeq(text, 3, Len(text)))
  ELSE (IF Head(text) \in {CR, LF} THEN 1 ELSE 0) + LineBreaks(Tail(text))
RowLines(row) ==
  IF row.kind = "record" THEN 1 + LineBreaks(row.message) ELSE 1
RECURSIVE LineCount(_)
LineCount(rows) ==
  IF rows = <<>> THEN 0 ELSE RowLines(Head(rows)) + LineCount(Tail(rows))

\* a log the server may not open (open raises, lines 179-180 give 0); no
\* handler creates one, the operator can put one into the directory
UnreadableLog == <<[kind |-> "EACCES"]>>

\* lines 176-180: the number of text lines of the file, less one
MessageCount(rows) ==
  IF rows = UnreadableLog THEN 0
  ELSE IF LineCount(rows) - 1 > 0 THEN LineCount(rows) - 1 ELSE 0

SessionSummary(sid) ==
  [session_id |-> sid, message_count |-> MessageCount(sessions_dir[sid]),
   modified |-> MTime(sid)]

ListOrder(S) == SortedDesc(S)

list_sessions(c) == UNCHANGED vars
list_sessions_response(c) ==
  IF require_admin(c)
  THEN LET order == ListOrder(DOMAIN sessions_dir)
       IN Response(200, [i \in 1..Len(order) |-> SessionSummary(order[i])])
  ELSE Unauthorized

\* lines 186-194: csv.DictReader takes the first row as the field names
get_session_log(c, sid) == UNCHANGED vars
get_session_log_response(c, sid) ==
  IF ~require_admin(c) THEN Unauthorized
  ELSE IF secure_sid(sid) \notin DOMAIN sessions_dir
  THEN Response(404, "Not found")
  ELSE Response(200, Tail(sessions_dir[secure_sid(sid)]))

\* lines 198-203: the file is named by secure_filename(sid), the registry
\* entry by sid as given
DeleteLog(dir, sid) == Without(dir, secure_sid(sid))
Evict(reg, sid) == Without(reg, sid)

delete_session(c, sid) ==
  IF require_admin(c)
  THEN /\ sessions_dir' = DeleteLog(sessions_dir, sid)
       /\ mtime_order' = Remove(mtime_order, secure_sid(sid))
       /\ chat_sessions' = Evict(chat_sessions, sid)
       /\ req' = [r \in Reqs |->
                   IF req[r].sid = secure_sid(sid)
                   THEN [req[r] EXCEPT !.fresh = FALSE] ELSE req[r]]
       /\ UNCHANGED <<training_docs, SYSTEM_PROMPT, cookie, issued, started,
                 answered, authed, written_by, at_restart>>
  ELSE UNCHANGED vars
delete_session_response(c, sid) ==
  IF require_admin(c) THEN Response(200, TRUE) ELSE Unauthorized

\* ------------------------------------------- system prompt, app.py:207-217
PromptBodies ==
  { [k \in {} |-> <<>>] } \cup
  { [prompt |-> p] : p \in { <<>>, <<SP>>, <<SP, "P", LF>>, None } }

get_prompt(c) == UNCHANGED vars
get_prompt_response(c) ==
  IF require_admin(c) THEN Response(200, SYSTEM_PROMPT) ELSE Unauthorized

\* line 216: request.json.get("prompt", SYSTEM_PROMPT)
\* a replace that takes a missing prompt field for the empty text
NewPrompt_blankWhenMissing(body, current) == Get(body, "prompt", <<>>)
NewPrompt(body, current) == Get(body, "prompt", current)

\* a replace that also forgets every conversation
set_prompt_forgetting(c, body) ==
  /\ SYSTEM_PROMPT' = IF require_admin(c) THEN NewPrompt(body, SYSTEM_PROMPT)
                      ELSE SYSTEM_PROMPT
  /\ chat_sessions' = IF require_admin(c) THEN [s \in {} |-> <<>>]
                      ELSE chat_sessions
  /\ UNCHANGED <<sessions_dir, mtime_order, cookie, issued,
                 started, req, authed, training_docs, answered,
                 written_by, at_restart>>
set_prompt(c, body) ==
  /\ SYSTEM_PROMPT' = IF require_admin(c) THEN NewPrompt(body, SYSTEM_PROMPT)
                      ELSE SYSTEM_PROMPT
  /\ UNCHANGED <<chat_sessions, sessions_dir, mtime_order, cookie, issued,
                 started, req, authed, training_docs, answered,
                 written_by, at_restart>>
set_prompt_response(c, body) ==
  IF require_admin(c) THEN Response(200, TRUE) ELSE Unauthorized

\* ---------------------------------------------- documents, app.py:124-167
MaxLen == 2          \* longest document text
Chars == {"x", CR, LF}
Texts == UNION { [1..k -> Chars] : k \in 0..MaxLen }
ShortTexts == { t \in Texts : Len(t) <= 1 }

\* werkzeug's secure_filename: path separators and spaces become "_", then
\* leading and trailing dots and underscores are stripped
FileNames == {"a.txt", ".a.txt", "b c.txt", "_", ""}
secure_filename(name) ==
  CASE name = "a.txt" -> "a.txt"
    [] name = ".a.txt" -> "a.txt"
    [] name = "b c.txt" -> "b_c.txt"
    [] name = "_" -> ""
    [] name = "" -> ""
\* TRAINING_DOCS_DIR / "" is the directory itself
IsDirectory(p) == p = ""
Exists(p) == IsDirectory(p) \/ p \in DOMAIN training_docs

\* the order of sorted() on the file names
\* an order that puts "a.txt" last
NameRank_descending(n) ==
  IF n = "a.txt" THEN 3 ELSE IF n = "b_c.txt" THEN 2 ELSE 1
NameRank(n) == IF n = "a.txt" THEN 1 ELSE IF n = "b_c.txt" THEN 2 ELSE 3
RECURSIVE SortedNames(_)
SortedNames(S) ==
  IF S = {} THEN <<>>
  ELSE LET m == CHOOSE x \in S : \A y \in S : NameRank(x) <= NameRank(y)
       IN <<m>> \o SortedNames(S \ {m})

\* Path.write_text(text, encoding="utf-8") on a POSIX host: the text as given
WriteText(text) == text
\* Path.read_text(encoding="utf-8", errors="replace"): text mode with
\* universal newlines, so "\r\n" and "\r" are read as "\n"
RECURSIVE ReadText(_)
ReadText(data) ==
  IF data = <<>> THEN <<>>
  ELSE IF Head(data) = CR
  THEN IF Len(data) >= 2 /\ data[2] = LF
       THEN <<LF>> \o ReadText(SubSeq(data, 3, Len(data)))
       ELSE <<LF>> \o ReadText(Tail(data))
  ELSE <<Head(data)>> \o ReadText(Tail(data))

\* load_knowledge, lines 36-44: one block per file, in the order of sorted(),
\* "--- {name} ---\n{text read}", the blocks joined by "\n\n"
RECURSIVE Join(_, _)
Join(sep, parts) ==
  IF parts = <<>> THEN <<>>
  ELSE IF Len(parts) = 1 THEN parts[1]
  ELSE parts[1] \o sep \o Join(sep, Tail(parts))
KnowledgeBlock(name, text) == <<"--- ", name, " ---", LF>> \o text
\* a file the server may not read (read_text raises, lines 42-43 skip it);
\* no handler creates one, the operator can put one into the directory
Unreadable == <<"EACCES">>
Readable(docs) == { n \in DOMAIN docs : docs[n] # Unreadable }
KnowledgeNames == SortedNames(Readable(training_docs))
load_knowledge ==
  Join(<<LF, LF>>,
       [i \in 1..Len(KnowledgeNames) |->
          KnowledgeBlock(KnowledgeNames[i],
                         ReadText(training_docs[KnowledgeNames[i]]))])

ServerError == Response(500, "Internal Server Error")
NotFound == Response(404, "Not found")

\* list_files, lines 124-131: no require_admin on this route
list_files(c) == UNCHANGED vars
list_files_response(c) ==
  LET names == SortedNames(DOMAIN training_docs)
  IN Response(200, [i \in 1..Len(names) |->
                      [name |-> names[i], size |-> Len(training_docs[names[i]])]])

\* upload_file, lines 135-142: files is the list of (filename, data) parts;
\* f.save on the directory itself raises
RECURSIVE SaveAll(_, _)
SaveAll(docs, files) ==
  IF files = <<>> THEN [docs |-> docs, uploaded |-> <<>>, raised |-> FALSE]
  ELSE LET f == Head(files)
           name == secure_filename(f.filename)
       IN IF f.filename = "" THEN SaveAll(docs, Tail(files))
          ELSE IF IsDirectory(name)
          THEN [docs |-> docs, uploaded |-> <<>>, raised |-> TRUE]
          ELSE LET rest == SaveAll(With(docs, name, f.data), Tail(files))
               IN [rest EXCEPT !.uploaded = <<name>> \o @]

Range(seq) == { seq[i] : i \in 1..Len(seq) }

upload_file(c, files) ==
  /\ training_docs' = IF require_admin(c)
                      THEN SaveAll(training_docs, files).docs
                      ELSE training_docs
  /\ written_by' =
       IF require_admin(c)
       THEN [n \in DOMAIN SaveAll(training_docs, files).docs |->
               IF n \in Range(SaveAll(training_docs, files).uploaded)
               THEN "upload_file" ELSE written_by[n]]
       ELSE written_by
  /\ UNCHANGED <<chat_sessions, sessions_dir, mtime_order, SYSTEM_PROMPT,
                 cookie, issued, started, req, authed, answered,
                 at_restart>>
upload_file_response(c, files) ==
  LET r == SaveAll(training_docs, files)
  IN IF ~require_admin(c) THEN Unauthorized
     ELSE IF r.raised THEN ServerError
     ELSE IF r.uploaded # <<>> THEN Response(200, r.uploaded)
     ELSE Response(400, "No valid files")

\* get_file, lines 146-150
get_file(c, filename) == UNCHANGED vars
get_file_response(c, filename) ==
  LET p == secure_filename(filename)
  IN IF ~require_admin(c) THEN Unauthorized
     ELSE IF ~Exists(p) THEN NotFound
     ELSE IF IsDirectory(p) THEN ServerError
     ELSE Response(200, [name |-> p, content |-> ReadText(training_docs[p])])

\* update_file, lines 154-159; write_text raises TypeError on a value that
\* is not text, before it opens the file
BodiesOf(T) ==
  { [k \in {} |-> <<>>] } \cup { [content |-> t] : t \in T \cup {None} }
UpdateBodies == BodiesOf(Texts)
ShortBodies == BodiesOf(ShortTexts)
\* a replace without the existence check of lines 156-157
UpdateWrites_noExistCheck(c, filename, body) ==
  /\ require_admin(c)
  /\ ~IsDirectory(secure_filename(filename))
  /\ Get(body, "content", <<>>) # None
UpdateWrites(c, filename, body) ==
  /\ require_admin(c)
  /\ secure_filename(filename) \in DOMAIN training_docs
  /\ Get(body, "content", <<>>) # None
Updated(docs, p, text) == With(docs, p, WriteText(text))

update_file(c, filename, body) ==
  /\ training_docs' =
       IF UpdateWrites(c, filename, body)
       THEN Updated(training_docs, secure_filename(filename),
                    Get(body, "content", <<>>))
       ELSE training_docs
  /\ written_by' =
       IF UpdateWrites(c, filename, body)
       THEN With(written_by, secure_filename(filename), "update_file")
       ELSE written_by
  /\ UNCHANGED <<chat_sessions, sessions_dir, mtime_order, SYSTEM_PROMPT,
                 cookie, issued, started, req, authed, answered,
                 at_restart>>
update_file_response(c, filename, body) ==
  LET p == secure_filename(filename)
  IN IF ~require_admin(c) THEN Unauthorized
     ELSE IF ~Exists(p) THEN NotFound
     ELSE IF IsDirectory(p) \/ Get(body, "content", <<>>) = None THEN ServerError
     ELSE Response(200, TRUE)

\* delete_file, lines 163-167; unlink on the directory itself raises
delete_file(c, filename) ==
  /\ training_docs' = IF require_admin(c)
                      THEN Without(training_docs, secure_filename(filename))
                      ELSE training_docs
  /\ written_by' = IF require_admin(c)
                   THEN Without(written_by, secure_filename(filename))
                   ELSE written_by
  /\ UNCHANGED <<chat_sessions, sessions_dir, mtime_order, SYSTEM_PROMPT,
                 cookie, issued, started, req, authed, answered,
                 at_restart>>
delete_file_response(c, filename) ==
  IF ~require_admin(c) THEN Unauthorized
  ELSE IF IsDirectory(secure_filename(filename)) THEN ServerError
  ELSE Response(200, TRUE)

\* ------------------------------------------ the LLM request, llm.py:24-49
KB_OPEN ==
  <<"=== KNOWLEDGE BASE ===", LF,
    "Use this information to answer questions. If the answer isn't here, say so.",
    LF, LF>>
KB_CLOSE == <<LF, "=== END KNOWLEDGE BASE ===">>
FALLBACK == <<"You are a helpful assistant.">>

\* lines 25-34: the parts of the system message
\* the parts without the calls of strip()
system_parts_untrimmed(system_prompt, knowledge_context) ==
  (IF Strip(system_prompt) # <<>> THEN <<system_prompt>> ELSE <<>>) \o
  (IF Strip(knowledge_context) # <<>>
   THEN <<KB_OPEN \o knowledge_context \o KB_CLOSE>> ELSE <<>>)
system_parts(system_prompt, knowledge_context) ==
  (IF Strip(system_prompt) # <<>> THEN <<Strip(system_prompt)>> ELSE <<>>) \o
  (IF Strip(knowledge_context) # <<>>
   THEN <<KB_OPEN \o Strip(knowledge_context) \o KB_CLOSE>> ELSE <<>>)
\* line 35
full_system(system_prompt, knowledge_context) ==
  IF system_parts(system_prompt, knowledge_context) # <<>>
  THEN Join(<<LF, LF>>, system_parts(system_prompt, knowledge_context))
  ELSE FALLBACK
\* line 46: "messages" of the payload
PayloadMessages(messages, system_prompt, knowledge_context) ==
  <<Msg("system", full_system(system_prompt, knowledge_context))>> \o messages

\* app.py:85: the arguments of call_llm are evaluated when the request is
\* at that line; LLMRequest(r) is what request r sends when it is there
\* a knowledge text cached when the server started
LLMKnowledge_cached(r) == <<>>
LLMKnowledge(r) == load_knowledge
LLMRequest(r) ==
  PayloadMessages(chat_sessions[req[r].sid], SYSTEM_PROMPT, LLMKnowledge(r))

\* ------------------------------------------------------- specifications
ChatStep(r) ==
  \/ \E c \in Chatters, body \in ChatBodies : chat_begin(r, c, body)
  \/ chat_check(r)
  \/ chat_create(r)
  \/ chat_append_user(r)
  \/ log_csv_exists(r)
  \/ log_csv_write(r)
  \/ \E o \in LLMOutcomes : chat_call_llm(r, o)
  \/ chat_append_reply(r)
  \/ chat_respond(r)

\* the chat handler under concurrent requests of its caller and the admin
Next ==
  \/ \E r \in Reqs : ChatStep(r)
  \/ \E c \in Chatters, new \in SIDS : new_session(c, new)
  \/ \E c \in Chatters, body \in LoginBodies : admin_login(c, body)
  \/ \E c \in Chatters : list_sessions(c)
  \/ \E c \in Chatters, sid \in SidInputs : get_session_log(c, sid)
  \/ \E c \in Chatters, sid \in SidInputs : delete_session(c, sid)

Spec == Init /\ [][Next]_vars

\* the management endpoints, called by an administrator and by another client
Uploads ==
  { <<[filename |-> n, data |-> t]>> : n \in FileNames, t \in ShortTexts } \cup
  { <<[filename |-> "", data |-> <<>>], [filename |-> "b c.txt", data |-> <<"x">>]>>,
    <<[filename |-> "a.txt", data |-> <<"x">>], [filename |-> "_", data |-> <<>>]>>,
    <<[filename |-> "b c.txt", data |-> <<>>], [filename |-> ".a.txt", data |-> <<LF>>]>> }

AdminNext ==
  \/ \E c \in Callers, body \in LoginBodies : admin_login(c, body)
  \/ \E c \in Callers : admin_logout(c)
  \/ \E c \in Callers : admin_status(c)
  \/ \E c \in Callers : list_files(c)
  \/ \E c \in Callers, files \in Uploads : upload_file(c, files)
  \/ \E c \in Callers, n \in FileNames : get_file(c, n)
  \/ \E c \in Callers, n \in FileNames, body \in ShortBodies :
        update_file(c, n, body)
  \/ \E c \in Callers, n \in FileNames : delete_file(c, n)
  \/ \E c \in Callers : get_prompt(c)
  \/ \E c \in Callers, body \in PromptBodies : set_prompt(c, body)

SpecAdmin == Init /\ [][AdminNext]_vars

\* logging in and out while one chat request of the same client is in flight
AuthNext ==
  \/ ChatStep(1)
  \/ \E c \in Chatters, new \in SIDS : new_session(c, new)
  \/ \E c \in Chatters, sid \in SIDS : session_info(c, sid)
  \/ \E c \in Callers, body \in LoginBodies : admin_login(c, body)
  \/ \E c \in Callers : admin_logout(c)
  \/ \E c \in Callers : admin_status(c)

SpecAuth == Init /\ [][AuthNext]_vars


\* an administrator's documents: empty files are uploaded, then replaced by
\* every text, read back and deleted
EmptyUploads == { <<[filename |-> n, data |-> <<>>]>> : n \in FileNames }

DocsNext ==
  \/ \E c \in Chatters : admin_login(c, [password |-> ADMIN_PASSWORD])
  \/ \E c \in Chatters : list_files(c)
  \/ \E c \in Chatters, files \in EmptyUploads : upload_file(c, files)
  \/ \E c \in Chatters, n \in FileNames : get_file(c, n)
  \/ \E c \in Chatters, n \in FileNames, body \in UpdateBodies :
        update_file(c, n, body)
  \/ \E c \in Chatters, n \in FileNames : delete_file(c, n)

SpecDocs == Init /\ [][DocsNext]_vars

\* a chat request while the administrator edits the documents and the prompt
KnowUploads ==
  { <<[filename |-> n, data |-> t]>> :
      n \in {"a.txt", "b c.txt"}, t \in {<<"x">>, <<CR>>} }

KnowNames == {"a.txt", "b c.txt"}
KnowBodies == { [content |-> t] : t \in {<<>>, <<LF>>} }

KnowNext ==
  \/ ChatStep(1)
  \/ \E c \in Chatters : admin_login(c, [password |-> ADMIN_PASSWORD])
  \/ \E c \in Chatters, files \in KnowUploads : upload_file(c, files)
  \/ \E c \in Chatters, n \in KnowNames, body \in KnowBodies :
        update_file(c, n, body)
  \/ \E c \in Chatters, n \in KnowNames : delete_file(c, n)
  \/ \E c \in Chatters, body \in PromptBodies : set_prompt(c, body)

\* the server starts on a knowledge directory that is empty or holds a file
\* "u.bin" put there by the operator, which the server may not read
InitKnow ==
  /\ chat_sessions = [s \in {} |-> <<>>]
  /\ sessions_dir = [s \in {} |-> <<>>]
  /\ mtime_order = <<>>
  /\ \/ training_docs = [n \in {} |-> <<>>] /\ written_by = [n \in {} |-> ""]
     \/ training_docs = [n \in {"u.bin"} |-> Unreadable]
          /\ written_by = [n \in {"u.bin"} |-> "operator"]
  /\ SYSTEM_PROMPT = DEFAULT_PROMPT
  /\ cookie = [c \in Callers |-> [sid |-> NoSid, is_admin |-> FALSE]]
  /\ issued = {}
  /\ started = 0
  /\ req = [r \in Reqs |-> IdleReq]
  /\ answered = IdleReq
  /\ authed = [c \in Callers |-> FALSE]
  /\ at_restart = [s \in {} |-> <<>>]

SpecKnow == InitKnow /\ [][KnowNext]_vars

\* chat requests of one client alone, after GET /api/session/info has given
\* the client its session id
ChatNext ==
  \/ \E r \in Reqs : ChatStep(r)
  \/ \E c \in Chatters, sid \in SIDS : session_info(c, sid)

SpecChat == Init /\ [][ChatNext]_vars

\* the prompt is read and replaced while one client chats on one session,
\* resets it and chats on the next
PromptNext ==
  \/ ChatStep(1)
  \/ \E c \in Chatters, new \in SIDS : new_session(c, new)
  \/ \E c \in Chatters : admin_login(c, [password |-> ADMIN_PASSWORD])
  \/ \E c \in Chatters : get_prompt(c)
  \/ \E c \in Chatters, body \in PromptBodies : set_prompt(c, body)

SpecPrompt == Init /\ [][PromptNext]_vars

\* an administrator lists the logs while a client chats with messages of one
\* and of several lines; the server starts on a log directory that is empty
\* or holds a log of an earlier session which the server may not read
LogBodies == { [message |-> m] : m \in { <<"a">>, <<"a", LF, "b">>, <<>> } }

InitLogs ==
  /\ chat_sessions = [s \in {} |-> <<>>]
  /\ \/ sessions_dir = [s \in {} |-> <<>>] /\ mtime_order = <<>> /\ issued = {}
     \/ sessions_dir = [s \in {MaxSid} |-> UnreadableLog]
          /\ mtime_order = <<MaxSid>> /\ issued = {MaxSid}
  /\ training_docs = [n \in {} |-> <<>>]
  /\ SYSTEM_PROMPT = DEFAULT_PROMPT
  /\ cookie = [c \in Callers |-> [sid |-> NoSid, is_admin |-> FALSE]]
  /\ started = 0
  /\ req = [r \in Reqs |-> IdleReq]
  /\ answered = IdleReq
  /\ authed = [c \in Callers |-> FALSE]
  /\ written_by = [n \in {} |-> ""]
  /\ at_restart = [s \in {} |-> <<>>]

LogNext ==
  \/ \E c \in Chatters, body \in LogBodies : chat_begin(1, c, body)
  \/ chat_check(1)
  \/ chat_create(1)
  \/ chat_append_user(1)
  \/ log_csv_exists(1)
  \/ log_csv_write(1)
  \/ \E o \in LLMOutcomes : chat_call_llm(1, o)
  \/ chat_append_reply(1)
  \/ chat_respond(1)
  \/ \E c \in Chatters, new \in SIDS : new_session(c, new)
  \/ \E c \in Chatters : admin_login(c, [password |-> ADMIN_PASSWORD])
  \/ \E c \in Chatters : list_sessions(c)

SpecLogs == InitLogs /\ [][LogNext]_vars

\* two clients, each with its own session: they chat and read their
\* session info
InfoNext ==
  \/ \E r \in Reqs, c \in Callers : chat_begin(r, c, [message |-> <<"a">>])
  \/ \E r \in Reqs :
        \/ chat_check(r)
        \/ chat_create(r)
        \/ chat_append_user(r)
        \/ log_csv_exists(r)
        \/ log_csv_write(r)
        \/ \E o \in {"ok", "http"} : chat_call_llm(r, o)
        \/ chat_append_reply(r)
        \/ chat_respond(r)
  \/ \E c \in Callers, sid \in SIDS : session_info(c, sid)

SpecInfo == Init /\ [][InfoNext]_vars

\* ------------------------------------------------------- process restart
\* The process ends and app.py is loaded again: the module globals are
\* initialised anew (lines 27-32), the requests in flight end without a
\* response, the files stay.  The cookie key of line 15 is FLASK_SECRET_KEY
\* when that is set (the clients' cookies stay valid) and a new random key
\* otherwise (every cookie is rejected and the session starts empty).
\* a restart that keeps the registry
RestartRegistry_kept(reg) == reg
RestartRegistry(reg) == [s \in {} |-> <<>>]
restart(keep_key) ==
  /\ chat_sessions' = RestartRegistry(chat_sessions)
  /\ SYSTEM_PROMPT' = DEFAULT_PROMPT
  /\ req' = [r \in Reqs |-> IdleReq]
  /\ cookie' = IF keep_key THEN cookie
               ELSE [c \in Callers |-> [sid |-> NoSid, is_admin |-> FALSE]]
  /\ at_restart' = sessions_dir
  /\ UNCHANGED <<sessions_dir, mtime_order, training_docs, issued, started,
                 answered, authed, written_by>>

\* chat requests of one client around restarts, the administrator having
\* replaced the prompt and uploaded a document
RestartNext ==
  \/ \E r \in Reqs : ChatStep(r)
  \/ \E c \in Chatters : admin_login(c, [password |-> ADMIN_PASSWORD])
  \/ \E c \in Chatters : set_prompt(c, [prompt |-> <<SP, "P", LF>>])
  \/ \E c \in Chatters :
        upload_file(c, <<[filename |-> "a.txt", data |-> <<"x">>]>>)
  \/ \E c \in Chatters, sid \in SIDS : session_info(c, sid)
  \/ \E keep_key \in BOOLEAN : restart(keep_key)

SpecRestart == Init /\ [][RestartNext]_vars

\* ================================================================ claims
Pair == <<"user", "assistant">>
Blank(m) == \A i \in 1..Len(m) : m[i] = SP

\* C1: every chat request with a message that is not blank appends exactly
\* one user record and then one assistant record to the registry and to the
\* log of its session, whatever other requests run beside it.
C1_ChatAppendsOnePair ==
  answered.status \in {200, 500} =>
    answered.regApp = Pair /\ answered.logApp = Pair

\* C2: a session reset returns an identifier other than the caller's old one,
\* leaves no registry entry for the old one and an empty entry for the new
\* one, and leaves the old log as it is; a log disappears only by an
\* administrator's delete of that session's log.
C2_ResetPost ==
  \A c \in Chatters, new \in SIDS :
    new_session(c, new) =>
      LET old == cookie[c].sid
      IN /\ new_session_response(c, new).out # old
         /\ old \notin DOMAIN chat_sessions'
         /\ new \in DOMAIN chat_sessions' /\ chat_sessions'[new] = <<>>
         /\ old \in DOMAIN sessions_dir =>
              old \in DOMAIN sessions_dir' /\ sessions_dir'[old] = sessions_dir[old]
C2_LogStays ==
  \A s \in DOMAIN sessions_dir :
    s \in DOMAIN sessions_dir' \/
      \E c \in Callers, x \in SidInputs :
        delete_session(c, x) /\ require_admin(c) /\ secure_sid(x) = s
C2_SessionReset == [][C2_ResetPost /\ C2_LogStays]_vars
\* a reset has happened: the caller's session is new and empty, and an older
\* session's log is still there though the registry has forgotten it
C2_Witness ==
  /\ \A r \in Reqs : req[r].pc = "idle"
  /\ cookie["c1"].sid \in DOMAIN chat_sessions
  /\ chat_sessions[cookie["c1"].sid] = <<>>
  /\ \E s \in DOMAIN sessions_dir :
       s # cookie["c1"].sid /\ s \notin DOMAIN chat_sessions /\ Len(sessions_dir[s]) = 3

\* C3: every document, session-log and system-prompt management endpoint
\* answers with the authorization error when the caller's admin flag is
\* absent.
C3_ManagementNeedsAdmin ==
  \A c \in Callers :
    ~cookie[c].is_admin =>
      /\ \A f \in Uploads : upload_file_response(c, f).status = 403
      /\ \A n \in FileNames :
           /\ get_file_response(c, n).status = 403
           /\ delete_file_response(c, n).status = 403
           /\ \A b \in ShortBodies : update_file_response(c, n, b).status = 403
      /\ list_sessions_response(c).status = 403
      /\ \A x \in SidInputs :
           /\ get_session_log_response(c, x).status = 403
           /\ delete_session_response(c, x).status = 403
      /\ get_prompt_response(c).status = 403
      /\ \A b \in PromptBodies : set_prompt_response(c, b).status = 403
      /\ list_files_response(c).status = 403

\* C4: a caller's admin flag is set exactly when that caller has logged in
\* with the right password and has not logged out since.
C4_FlagIffLoggedIn == \A c \in Callers : cookie[c].is_admin = authed[c]

\* C5: when the LLM call of a chat request fails, call_llm returns an error
\* text, which the request stores as the assistant message in the registry
\* and in the log and returns with success status.
C5_LLMFailureStored ==
  (answered.pc = "done" /\ answered.reply = ErrorReply) =>
    /\ answered.status = 200
    /\ answered.regApp = Pair
    /\ answered.logApp = Pair

\* C6: a chat request whose message is blank or missing is answered with the
\* client error and changes nothing: no registry entry, no log record, no
\* session identifier, no request to the LLM.
C6_BlankStep ==
  \A r \in Reqs, c \in Chatters, body \in ChatBodies :
    (chat_begin(r, c, body) /\ Blank(Get(body, "message", <<>>))) =>
      /\ answered'.status = 400
      /\ answered'.reply = <<>> /\ answered'.regApp = <<>> /\ answered'.logApp = <<>>
      /\ UNCHANGED <<chat_sessions, sessions_dir, mtime_order, training_docs,
                     SYSTEM_PROMPT, cookie, issued, started, req>>
C6_BlankMessageRejected == [][C6_BlankStep]_vars
C6_Witness == answered.status = 400 /\ DOMAIN sessions_dir # {}

\* C7: deleting a session's log removes the file and the registry entry of
\* that id, and a chat on that id that begins afterwards finds a log that
\* starts with the header row.
C7_DeletePost ==
  \A c \in Callers, x \in SidInputs :
    (delete_session(c, x) /\ require_admin(c)) =>
      /\ (get_session_log_response(c, x)').status = 404
      /\ x \notin DOMAIN chat_sessions'
C7_LaterChat ==
  \A r \in Reqs :
    (req[r].fresh /\ req[r].logApp # <<>>) =>
      /\ req[r].sid \in DOMAIN sessions_dir
      /\ sessions_dir[req[r].sid][1] = HEADER
C7_DeleteStartsAfresh == [][C7_DeletePost]_vars /\ []C7_LaterChat

\* C8: the session-log listing is ordered by most recent modification first.
C8_ListMostRecentFirst ==
  \A c \in Callers :
    require_admin(c) =>
      LET out == list_sessions_response(c).out
      IN /\ { out[i].session_id : i \in 1..Len(out) } = DOMAIN sessions_dir
         /\ \A i, j \in 1..Len(out) : i < j => out[i].modified > out[j].modified

\* C9 as stated: replacing the content of a name creates the document when
\* there is none and overwrites it when there is one, and a read that follows
\* returns the written content.
C9_CreatesWhenAbsent ==
  \A c \in Callers, n \in FileNames, t \in ShortTexts :
    (require_admin(c) /\ ~IsDirectory(secure_filename(n))
       /\ ~Exists(secure_filename(n))) =>
      update_file_response(c, n, [content |-> t]).status = 200
C9_Original ==
  \A c \in Callers, n \in FileNames, t \in ShortTexts :
    (update_file(c, n, [content |-> t]) /\ require_admin(c)
       /\ ~IsDirectory(secure_filename(n))) =>
      /\ secure_filename(n) \in DOMAIN training_docs'
      /\ (get_file_response(c, n)').status = 200
      /\ (get_file_response(c, n)').out.content = t
C9_AbsentNotFound ==
  \A c \in Callers, n \in FileNames, body \in ShortBodies :
    (require_admin(c) /\ ~Exists(secure_filename(n))) =>
      update_file_response(c, n, body).status = 404
C9_Amended ==
  \A c \in Callers, n \in FileNames, body \in ShortBodies :
    (update_file(c, n, body) /\ require_admin(c)) =>
      LET p == secure_filename(n)
          t == Get(body, "content", <<>>)
      IN IF p \in DOMAIN training_docs /\ t # None
         THEN /\ update_file_response(c, n, body).status = 200
              /\ training_docs' = [training_docs EXCEPT ![p] = t]
              /\ (get_file_response(c, n)').status = 200
              /\ (get_file_response(c, n)').out.content = ReadText(t)
         ELSE training_docs' = training_docs
C10_Step ==
  \A c \in Chatters, n \in FileNames, t \in Texts :
    (update_file(c, n, [content |-> t]) /\ require_admin(c)
       /\ secure_filename(n) \in DOMAIN training_docs) =>
      /\ (get_file_response(c, n)').status = 200
      /\ (get_file_response(c, n)').out.content = t
C10_RoundTrip == [][C10_Step]_vars

\* C11: deleting a document always reports success and is idempotent: a name
\* that is absent leaves the documents as they are, and after a delete the
\* name is absent, so that a second delete changes nothing.
C11_AlwaysSuccess ==
  \A c \in Callers, n \in FileNames :
    require_admin(c) => delete_file_response(c, n).status = 200
C11_Step ==
  \A c \in Callers, n \in FileNames :
    (delete_file(c, n) /\ require_admin(c)) =>
      LET p == secure_filename(n)
      IN /\ p \notin DOMAIN training_docs => training_docs' = training_docs
         /\ p \notin DOMAIN training_docs'
         /\ \A m \in DOMAIN training_docs \ {p} :
              m \in DOMAIN training_docs' /\ training_docs'[m] = training_docs[m]
C11_DeleteIdempotent == []C11_AlwaysSuccess /\ [][C11_Step]_vars

\* helpers of the claims about texts
Contains(seq, sub) ==
  \E i \in 0..(Len(seq) - Len(sub)) : SubSeq(seq, i + 1, i + Len(sub)) = sub
Occurs(seq, x) == \E i \in 1..Len(seq) : seq[i] = x
DocPaths == {"a.txt", "b_c.txt"}
BlockOf(n) == <<"--- ", n, " ---", LF>> \o ReadText(training_docs[n])

\* C12: the knowledge text a chat request passes to the LLM is computed from
\* the documents as they are when the request makes the call: it holds the
\* block of every document present, with its present content, and nothing
\* of a document that is absent.
C12_KnowledgeIsCurrent ==
  \A r \in Reqs :
    req[r].pc = "L85" =>
      /\ \A n \in DocPaths \cap DOMAIN training_docs :
           Contains(LLMKnowledge(r), BlockOf(n))
      /\ \A n \in DocPaths \ DOMAIN training_docs : ~Occurs(LLMKnowledge(r), n)
\* a second chat request is at the call, one document was replaced after its
\* upload and the other is absent
C12_Witness ==
  /\ req[1].pc = "L85" /\ started = 2
  /\ DOMAIN training_docs = {"a.txt"}
  /\ written_by["a.txt"] = "update_file"
  /\ training_docs["a.txt"] = <<LF>>

\* C13: the knowledge text is the blocks "--- name ---", newline, content of
\* the readable documents in ascending order of their names, joined by a
\* blank line, a file that cannot be read being left out; it is determined
\* by the documents present, whatever the order of the uploads and edits
\* that produced them.
C13_KnowledgeFormat ==
  load_knowledge =
    CASE DOMAIN training_docs \cap DocPaths = {} -> <<>>
      [] DOMAIN training_docs \cap DocPaths = {"a.txt"} -> BlockOf("a.txt")
      [] DOMAIN training_docs \cap DocPaths = {"b_c.txt"} -> BlockOf("b_c.txt")
      [] DOMAIN training_docs \cap DocPaths = DocPaths ->
           BlockOf("a.txt") \o <<LF, LF>> \o BlockOf("b_c.txt")
\* both documents are present beside the unreadable file, the first in name
\* order written last
C13_Witness ==
  /\ DOMAIN training_docs = DocPaths \cup {"u.bin"}
  /\ training_docs["u.bin"] = Unreadable
  /\ written_by["a.txt"] = "update_file"
  /\ written_by["b_c.txt"] = "upload_file"
  /\ training_docs["b_c.txt"] = <<CR>>

\* C14: upload, content replace and delete of documents and the replace of
\* the system prompt leave every session log and every registry entry as
\* they are.
C14_Step ==
  /\ \A c \in Chatters, files \in KnowUploads :
       upload_file(c, files) => UNCHANGED <<sessions_dir, chat_sessions>>
  /\ \A c \in Chatters, n \in KnowNames, body \in KnowBodies :
       update_file(c, n, body) => UNCHANGED <<sessions_dir, chat_sessions>>
  /\ \A c \in Chatters, n \in KnowNames :
       delete_file(c, n) => UNCHANGED <<sessions_dir, chat_sessions>>
  /\ \A c \in Chatters, body \in PromptBodies :
       set_prompt(c, body) => UNCHANGED <<sessions_dir, chat_sessions>>
C14_DocumentOpsKeepLogs == [][C14_Step]_vars
\* a conversation is logged and in the registry, and the administrator has
\* replaced the prompt and a document
C14_Witness ==
  /\ \E s \in DOMAIN sessions_dir :
       Len(sessions_dir[s]) = 3 /\ s \in DOMAIN chat_sessions
         /\ Len(chat_sessions[s]) = 2
  /\ SYSTEM_PROMPT = <<SP, "P", LF>>
  /\ \E n \in DOMAIN training_docs : written_by[n] = "update_file"

\* C17: the system message is the trimmed system prompt when that is not
\* empty, followed by the knowledge block, which wraps the trimmed knowledge
\* text between its two delimiter lines, when that text is not empty; a part
\* that is empty is left out, and with both empty the message is the
\* fallback.
TrimOf(s) ==
  LET solid == { i \in 1..Len(s) : s[i] \notin Whitespace }
  IN IF solid = {} THEN <<>>
     ELSE SubSeq(s, CHOOSE i \in solid : \A j \in solid : i <= j,
                    CHOOSE i \in solid : \A j \in solid : j <= i)
ExpectedSystem(prompt, knowledge) ==
  LET p == TrimOf(prompt)
      k == TrimOf(knowledge)
      block == <<"=== KNOWLEDGE BASE ===", LF>> \o
               <<"Use this information to answer questions. If the answer isn't here, say so.">>
               \o <<LF, LF>> \o k \o <<LF, "=== END KNOWLEDGE BASE ===">>
  IN CASE p # <<>> /\ k # <<>> -> p \o <<LF, LF>> \o block
       [] p # <<>> /\ k = <<>> -> p
       [] p = <<>> /\ k # <<>> -> block
       [] p = <<>> /\ k = <<>> -> <<"You are a helpful assistant.">>
C17_SystemMessage ==
  SYSTEM_PROMPT # None =>
    /\ full_system(SYSTEM_PROMPT, load_knowledge) =
         ExpectedSystem(SYSTEM_PROMPT, load_knowledge)
    /\ \A r \in Reqs :
         (req[r].pc = "L85" /\ req[r].sid \in DOMAIN chat_sessions) =>
           LLMRequest(r)[1] =
             Msg("system", ExpectedSystem(SYSTEM_PROMPT, load_knowledge))
\* a chat request is at the call with a prompt and a knowledge text that both
\* need trimming
C17_Witness ==
  /\ req[1].pc = "L85" /\ req[1].sid \in DOMAIN chat_sessions
  /\ SYSTEM_PROMPT = <<SP, "P", LF>>
  /\ "a.txt" \in DOMAIN training_docs /\ training_docs["a.txt"] = <<LF>>
  /\ "b_c.txt" \notin DOMAIN training_docs
\* a chat request is at the call with nothing but blanks in the prompt and
\* no readable document
C17_FallbackReached ==
  /\ req[1].pc = "L85" /\ SYSTEM_PROMPT = <<SP>> /\ load_knowledge = <<>>
  /\ full_system(SYSTEM_PROMPT, load_knowledge) = FALLBACK

\* C15: every session log that exists is one header row followed by message
\* records only, after any interleaving of log appends.
C15_OneHeaderFirst ==
  \A s \in DOMAIN sessions_dir :
    /\ sessions_dir[s] # <<>>
    /\ sessions_dir[s][1] = HEADER
    /\ \A i \in 2..Len(sessions_dir[s]) : sessions_dir[s][i].kind = "record"

\* C19: when no chat request is in flight, the (role, content) pairs of a
\* session's registry entry are those of the records of its log, in the
\* same order.
Records(rows) == SelectSeq(rows, LAMBDA row : row.kind = "record")
LogPairs(rows) ==
  [i \in 1..Len(Records(rows)) |->
     Msg(Records(rows)[i].role, Records(rows)[i].message)]
Quiescent == \A r \in Reqs : req[r].pc = "idle"
C19_HistoryEqualsLog ==
  Quiescent =>
    \A s \in DOMAIN chat_sessions :
      chat_sessions[s] =
        LogPairs(IF s \in DOMAIN sessions_dir THEN sessions_dir[s] ELSE <<>>)

\* C18: a chat request with a message that is not blank always ends with a
\* success response that carries a reply, its assistant record appended to
\* the registry and to the log, whatever requests run beside it.
C18_ChatAlwaysSucceeds ==
  (answered.pc = "done" /\ answered.status # 400) =>
    /\ answered.status = 200
    /\ answered.raised = "no"
    /\ answered.reply # <<>>
    /\ Occurs(answered.regApp, "assistant")
    /\ Occurs(answered.logApp, "assistant")

\* C20: what a chat request sends to the LLM is the system message followed
\* by the whole registry entry of its session as it is at the call, which
\* already holds the user message of this request; that message is the last
\* one sent when no other request of the session is in flight.
C20_SendsWholeHistory ==
  \A r \in Reqs :
    (req[r].pc = "L85" /\ req[r].sid \in DOMAIN chat_sessions
       /\ SYSTEM_PROMPT # None) =>
      LET sent == LLMRequest(r)
          history == chat_sessions[req[r].sid]
          mine == Msg("user", req[r].msg)
      IN /\ Len(sent) = Len(history) + 1
         /\ sent[1].role = "system"
         /\ \A i \in 1..Len(history) : sent[i + 1] = history[i]
         /\ Occurs(history, mine)
         /\ (\A q \in Reqs \ {r} :
               req[q].pc = "idle" \/ req[q].sid # req[r].sid)
              => sent[Len(sent)] = mine

\* C16: a restart empties the registry and puts the system prompt back to
\* its default while it leaves every log and document as it is; afterwards a
\* chat on a session whose log the restart found sends to the LLM only
\* messages appended since the restart, and the log keeps what the restart
\* found, followed by message records only (no second header row).
C16_RestartStep ==
  \A keep_key \in BOOLEAN :
    restart(keep_key) =>
      /\ DOMAIN chat_sessions' = {}
      /\ \A c \in Callers, sid \in SIDS :
           (session_info_response(c, sid)').out.history = <<>>
      /\ SYSTEM_PROMPT' = DEFAULT_PROMPT
      /\ UNCHANGED <<sessions_dir, training_docs>>
AppendedSince(s) ==
  Len(sessions_dir[s]) - Len(at_restart[s])
    + Cardinality({ q \in Reqs : req[q].sid = s
                                   /\ Len(req[q].regApp) > Len(req[q].logApp) })
C16_AfterRestart ==
  \A s \in DOMAIN at_restart :
    /\ s \in DOMAIN sessions_dir
    /\ Len(sessions_dir[s]) >= Len(at_restart[s])
    /\ SubSeq(sessions_dir[s], 1, Len(at_restart[s])) = at_restart[s]
    /\ \A i \in (Len(at_restart[s]) + 1)..Len(sessions_dir[s]) :
         sessions_dir[s][i].kind = "record"
    /\ \A r \in Reqs :
         (req[r].pc = "L85" /\ req[r].sid = s /\ s \in DOMAIN chat_sessions) =>
           Len(LLMRequest(r)) - 1 <= AppendedSince(s)
C16_Restart == [][C16_RestartStep]_vars /\ []C16_AfterRestart
\* a session was logged before the restart (header, user, assistant), the
\* prompt had been replaced and a document uploaded; after the restart a chat
\* on the same session is at the call with its user message alone
C16_Witness ==
  \E s \in DOMAIN at_restart :
    /\ Len(at_restart[s]) = 3
    /\ req[1].pc = "L85" /\ req[1].sid = s
    /\ s \in DOMAIN chat_sessions /\ Len(chat_sessions[s]) = 1
    /\ Len(sessions_dir[s]) = 4
    /\ SYSTEM_PROMPT = DEFAULT_PROMPT
    /\ "a.txt" \in DOMAIN training_docs
    /\ cookie["c1"].is_admin

\* C21: a chat request that has answered posted exactly one request to the
\* LLM endpoint when its message was not empty (whether the post succeeded or
\* failed), and none when its message was empty (answered 400).
C21_OnePostPerChat ==
  answered.pc = "done" =>
    answered.posts = (IF answered.status = 400 THEN 0 ELSE 1)

\* C22: the system prompt is one global value.  It is the default until an
\* administrator's replace completes; a completed replace that carries a
\* prompt makes get return that prompt, one that carries no prompt field
\* leaves what get returns as it was, and no other request changes it.  A
\* chat request at its call, whatever its session, sends the system message
\* made of the value get returns at that moment.

C22_Step ==
  /\ \A c \in Callers, body \in PromptBodies :
       (require_admin(c) /\ set_prompt(c, body)) =>
         (get_prompt_response(c)').out =
           (IF "prompt" \in DOMAIN body THEN body.prompt
            ELSE get_prompt_response(c).out)
  /\ (~ \E c \in Callers, body \in PromptBodies :
          require_admin(c) /\ set_prompt(c, body)) =>
       UNCHANGED SYSTEM_PROMPT
C22_ReadAndSent ==
  /\ \A c \in Callers :
       require_admin(c) => get_prompt_response(c) = Response(200, SYSTEM_PROMPT)
  /\ \A r \in Reqs :
       (req[r].pc = "L85" /\ req[r].sid \in DOMAIN chat_sessions
          /\ SYSTEM_PROMPT # None) =>
         LLMRequest(r)[1] =
           Msg("system", ExpectedSystem(SYSTEM_PROMPT, load_knowledge))
C22_GlobalPrompt ==
  /\ SYSTEM_PROMPT = DEFAULT_PROMPT
  /\ [][C22_Step]_vars
  /\ []C22_ReadAndSent
\* the client has chatted on one session, the administrator has replaced the
\* prompt, and a chat of the client's next session is at the call
C22_Witness ==
  /\ req[1].pc = "L85" /\ req[1].sid = 2 /\ 2 \in DOMAIN chat_sessions
  /\ 1 \in DOMAIN sessions_dir /\ Len(sessions_dir[1]) = 3
  /\ require_admin("c1")
  /\ SYSTEM_PROMPT = <<SP, "P", LF>>

\* C23: the listing an administrator gets succeeds and gives, for every log,
\* a message_count equal to the number of message records in the log (the
\* header row not counted), whatever the contents of the messages, and 0 for
\* a log that cannot be read.
C23_CountsRecords ==
  \A c \in Callers :
    require_admin(c) =>
      LET resp == list_sessions_response(c)
      IN /\ resp.status = 200
         /\ Len(resp.out) = Cardinality(DOMAIN sessions_dir)
         /\ \A i \in 1..Len(resp.out) :
              resp.out[i].message_count =
                (IF sessions_dir[resp.out[i].session_id] = UnreadableLog THEN 0
                 ELSE Len(Records(sessions_dir[resp.out[i].session_id])))

\* C24: an administrator's upload stores exactly the submitted entries whose
\* file name is not empty, each under its sanitized name and over a document
\* of that name, and answers with the sanitized names in submission order;
\* when no entry has a name it answers with a client error and stores
\* nothing.
Accepted(files) == SelectSeq(files, LAMBDA f : f.filename # "")
RECURSIVE StoredAfter(_, _)
StoredAfter(docs, entries) ==
  IF entries = <<>> THEN docs
  ELSE StoredAfter(With(docs, secure_filename(Head(entries).filename),
                        Head(entries).data),
                   Tail(entries))
C24_Answer ==
  \A c \in Callers, files \in Uploads :
    require_admin(c) =>
      upload_file_response(c, files) =
        (IF Accepted(files) = <<>> THEN Response(400, "No valid files")
         ELSE Response(200, [i \in 1..Len(Accepted(files)) |->
                               secure_filename(Accepted(files)[i].filename)]))
C24_Step ==
  \A c \in Callers, files \in Uploads :
    (require_admin(c) /\ upload_file(c, files)) =>
      training_docs' = StoredAfter(training_docs, Accepted(files))
C24_UploadStoresAccepted == []C24_Answer /\ [][C24_Step]_vars

\* C25: GET session/info answers with the caller's session id and the
\* registry's history of that id, empty when the registry has no entry for
\* it; it adds no registry entry, leaves every session's history, every log,
\* the documents and the prompt as they are.
HistoryOf(sid) ==
  IF sid \in DOMAIN chat_sessions THEN chat_sessions[sid] ELSE <<>>
C25_Answer ==
  \A c \in Callers :
    cookie[c].sid # NoSid =>
      /\ session_info_response(c, cookie[c].sid) =
           Response(200, [session_id |-> cookie[c].sid,
                          history |-> HistoryOf(cookie[c].sid)])
      /\ InfoRegistry(chat_sessions, cookie[c].sid) = chat_sessions
C25_Step ==
  \A c \in Callers, sid \in SIDS :
    session_info(c, sid) =>
      /\ cookie'[c].sid = sid
      /\ session_info_response(c, sid).out.session_id = sid
      /\ (session_info_response(c, sid)').out.history = HistoryOf(sid)
      /\ DOMAIN chat_sessions' = DOMAIN chat_sessions
      /\ \A s \in DOMAIN chat_sessions : chat_sessions'[s] = chat_sessions[s]
      /\ UNCHANGED <<sessions_dir, mtime_order, training_docs, SYSTEM_PROMPT>>
      /\ \A d \in Callers \ {c} : cookie'[d] = cookie[d]
C25_InfoReadOnly == []C25_Answer /\ [][C25_Step]_vars
\* the second client has read its session info and has not chatted: it holds
\* an id without registry entry or log, beside the first client's session of
\* two messages
C25_Witness ==
  /\ cookie["c2"].sid # NoSid
  /\ cookie["c2"].sid \notin DOMAIN chat_sessions
  /\ cookie["c2"].sid \notin DOMAIN sessions_dir
  /\ \A r \in Reqs : req[r].sid # cookie["c2"].sid
  /\ cookie["c1"].sid \in DOMAIN chat_sessions
  /\ Len(chat_sessions[cookie["c1"].sid]) = 2

====
